---------------------------- MODULE Spec2Model ----------------------------
(***************************************************************************)
(* The explicit-free-list allocator of src/malloc.c, at the level of the   *)
(* 4-byte words it reads and writes.                                        *)
(*                                                                          *)
(* Addresses are byte offsets from the first byte mem_sbrk ever returned   *)
(* (an 8-aligned address), so a pointer is a multiple of 8 exactly when    *)
(* its offset is.  Memory is a partial function from word addresses to     *)
(* word values: a word is in its domain when the allocator wrote it and    *)
(* no caller has owned it since.  A word outside the domain holds an       *)
(* indeterminate value (never initialised, the caller's data, or a word   *)
(* of a free block that is neither a tag nor a link).  A call that reads  *)
(* such a word has no defined result: it is recorded (phase "wild", or    *)
(* "hung" when the word is a list link that find_fit follows and the scan *)
(* may therefore never end) and the run is not followed further.           *)
(*                                                                          *)
(* The size type is SizeBits wide; the request sizes that wrap are taken   *)
(* relative to 2^SizeBits, so what they do does not depend on the width.   *)
(***************************************************************************)
EXTENDS Integers, Sequences, FiniteSets, TLC

VARIABLES
    mem,             \* word address -> word value (see above)
    brk,             \* heap end: the address mem_sbrk returns next
    FREE_LIST_ROOT,  \* the static root of the explicit free list
    phase,           \* "new" (no mm_init yet) | "ready" | "hung" | "fault" | "wild"
    live,            \* the pointers the caller holds
    grown,           \* mem_sbrk calls that succeeded after mm_init
    last,            \* the call that just completed
    scen,            \* progress of the reuse scenario on a fresh heap
    calls            \* the number of calls made after mm_init

vars == <<mem, brk, FREE_LIST_ROOT, phase, live, grown, last, scen, calls>>

-----------------------------------------------------------------------------
(* Bounds of the model *)

SizeBits == 16
MaxLive == 3
MaxGrow == 2
MaxScan == 4
MaxCalls == 5

(* Program constants *)

WSIZE == 4
DSIZE == 8
DEFAULT_CHUNKSIZE == 4096
NULL == 0

SIZE_MOD == 2 ^ SizeBits

\* size_t arithmetic is modulo 2^SizeBits
U(x) == x % SIZE_MOD

MAX(x, y) == IF x > y THEN x ELSE y

\* (size) | (alloc), for alloc in {0, 1}
PACK(size, alloc) == IF size % 2 = 1 THEN size ELSE size + alloc

\* Request sizes: none, minimum block, the scenario's 16, a medium one, a
\* chunk-sized one, one above the chunk, and two whose normalisation wraps.
SIZES == {0, 1, 16, 100, 4088, 5000, SIZE_MOD - 15, SIZE_MOD - 1}

-----------------------------------------------------------------------------
(* The heap as the helpers see and change it during one call.              *)
(*   mem, brk, root : the memory, the heap end, FREE_LIST_ROOT             *)
(*   ok    : whether mem_sbrk succeeds in this call                        *)
(*   wild  : the call read an indeterminate word                           *)
(*   sbrks : the byte counts mem_sbrk was called with in this call         *)
(*   bp    : the value the helper returns                                  *)
(*   hang  : a loop did not end; fault : a write left the heap             *)
(*   scan  : find_fit took an indeterminate word for the next link          *)

HeapOf(s, ok) ==
    [mem |-> s.mem, brk |-> s.brk, root |-> s.root, ok |-> ok, wild |-> FALSE,
     sbrks |-> <<>>, bp |-> NULL, hang |-> FALSE, fault |-> FALSE,
     scan |-> FALSE]

\* mem, brk and FREE_LIST_ROOT now
Now == [mem |-> mem, brk |-> brk, root |-> FREE_LIST_ROOT]

Heap(ok) == HeapOf(Now, ok)

READ(h, p) == IF p \in DOMAIN h.mem THEN h.mem[p] ELSE 0

\* Records that the words at the addresses S are read.
Rd(h, S) == IF S \subseteq DOMAIN h.mem THEN h ELSE [h EXCEPT !.wild = TRUE]

WRITE(h, p, val) ==
    IF p < 0 \/ p >= h.brk
    THEN [h EXCEPT !.fault = TRUE]
    ELSE [h EXCEPT !.mem = (p :> val) @@ h.mem]

GET_SIZE(h, mp) == LET v == READ(h, mp) IN v - (v % 8)
GET_ALLOC(h, mp) == READ(h, mp) % 2

NEXTP(bp) == bp
PREVP(bp) == bp + WSIZE

HDRP(bp) == bp - WSIZE
FTRP(h, bp) == bp + GET_SIZE(h, HDRP(bp)) - DSIZE

NEXT_BLKP(h, bp) == bp + GET_SIZE(h, bp - WSIZE)
PREV_BLKP(h, bp) == bp - GET_SIZE(h, bp - DSIZE)

\* The growth primitive: extends the heap by incr bytes and returns its old
\* end, or fails with -1 and changes nothing.
mem_sbrk(h, incr) ==
    IF h.ok
    THEN [h EXCEPT !.brk = @ + incr, !.sbrks = Append(@, incr), !.bp = h.brk]
    ELSE [h EXCEPT !.sbrks = Append(@, incr), !.bp = -1]

-----------------------------------------------------------------------------
(* The one element of a one-element set.  A helper names each heap it goes  *)
(* through as the element of a one-element set, The({ e(x) : x \in {v} }),  *)
(* so that v is computed once; the steps of a helper are therefore read     *)
(* from its last line upwards.                                              *)

The(S) == CHOOSE x \in S : TRUE

-----------------------------------------------------------------------------
(* The free list *)

add_free(h, bp) ==
    The({ The({
        IF h1.root # NULL
        THEN LET root_next == READ(h1, NEXTP(h1.root))
             IN  The({
                 [WRITE(h2, NEXTP(bp), root_next) EXCEPT !.root = bp]
                 : h2 \in {IF root_next # NULL
                           THEN WRITE(h1, PREVP(root_next), bp) ELSE h1} })
        ELSE [WRITE(h1, NEXTP(bp), NULL) EXCEPT !.root = bp]
    : h1 \in {IF h0.root # NULL THEN Rd(h0, {NEXTP(h0.root)}) ELSE h0} })
    : h0 \in {WRITE(h, PREVP(bp), NULL)} })

fb_patching(h0, bp) ==
    The({
        LET bp_prev == READ(h, PREVP(bp))
            bp_next == READ(h, NEXTP(bp))
        IN  The({
            IF bp_next # NULL THEN WRITE(h1, PREVP(bp_next), bp_prev) ELSE h1
            : h1 \in {IF bp_prev # NULL
                      THEN WRITE(h, NEXTP(bp_prev), bp_next)
                      ELSE [h EXCEPT !.root = bp_next]} })
    : h \in {Rd(h0, {PREVP(bp), NEXTP(bp)})} })

RECURSIVE find_fit_loop(_, _, _, _)
find_fit_loop(h, curr_free, asize, fuel) ==
    IF curr_free = NULL THEN [h EXCEPT !.bp = NULL]
    ELSE IF ~ (GET_SIZE(h, HDRP(curr_free)) < asize)
    THEN [Rd(h, {HDRP(curr_free)}) EXCEPT !.bp = curr_free]
    ELSE IF fuel = 0 THEN [h EXCEPT !.bp = NULL, !.hang = TRUE]
    ELSE The({
        find_fit_loop(h1, next_free, asize, left)
        : h1 \in {[Rd(h, {HDRP(curr_free), NEXTP(curr_free)})
                     EXCEPT !.scan = @ \/ NEXTP(curr_free) \notin DOMAIN h.mem]},
          next_free \in {READ(h, NEXTP(curr_free))},
          left \in {fuel - 1} })

\* find_fit with the scan started one past the head of the list
find_fit_past_head(h, asize) ==
    The({ find_fit_loop(h, second, asize, MaxScan)
        : second \in {IF h.root = NULL THEN NULL ELSE READ(h, NEXTP(h.root))} })

find_fit(h, asize) == find_fit_loop(h, h.root, asize, MaxScan)

-----------------------------------------------------------------------------
(* Coalescing and placement *)

\* handle_free without the merging of free neighbours
handle_free_no_merge(h0, bp) == [add_free(h0, bp) EXCEPT !.bp = bp]

handle_free(h0, bp) ==
    The({ The({
        LET prev_alloc == GET_ALLOC(h, FTRP(h, prev_block))
            next_alloc == GET_ALLOC(h, HDRP(next_block))
            size == GET_SIZE(h, HDRP(bp))
        IN  IF prev_alloc # 0 /\ next_alloc # 0
            THEN [add_free(h, bp) EXCEPT !.bp = bp]
            ELSE IF prev_alloc # 0 /\ next_alloc = 0
            THEN The({ The({ The({
                     [add_free(h3, bp) EXCEPT !.bp = bp]
                 : h3 \in {WRITE(h2, FTRP(h2, next_block),
                                 PACK(size + GET_SIZE(h1, HDRP(next_block)), 0))} })
                 : h2 \in {WRITE(h1, HDRP(bp),
                                 PACK(size + GET_SIZE(h1, HDRP(next_block)), 0))} })
                 : h1 \in {fb_patching(h, next_block)} })
            ELSE IF prev_alloc = 0 /\ next_alloc # 0
            THEN The({ The({ The({
                     [add_free(h3, prev_block) EXCEPT !.bp = prev_block]
                 : h3 \in {WRITE(h2, FTRP(h2, bp),
                                 PACK(size + GET_SIZE(h1, HDRP(prev_block)), 0))} })
                 : h2 \in {WRITE(h1, HDRP(prev_block),
                                 PACK(size + GET_SIZE(h1, HDRP(prev_block)), 0))} })
                 : h1 \in {fb_patching(h, prev_block)} })
            ELSE The({ The({ The({ The({
                     [add_free(h4, prev_block) EXCEPT !.bp = prev_block]
                 : h4 \in {WRITE(h3, FTRP(h3, next_block),
                                 PACK(size + GET_SIZE(h2, HDRP(prev_block))
                                           + GET_SIZE(h2, HDRP(next_block)), 0))} })
                 : h3 \in {WRITE(h2, HDRP(prev_block),
                                 PACK(size + GET_SIZE(h2, HDRP(prev_block))
                                           + GET_SIZE(h2, HDRP(next_block)), 0))} })
                 : h2 \in {fb_patching(h1, next_block)} })
                 : h1 \in {fb_patching(h, prev_block)} })
    : h \in {Rd(h0, {bp - DSIZE, HDRP(bp), HDRP(prev_block), FTRP(h0, prev_block),
                     HDRP(next_block)})} })
    : prev_block \in {PREV_BLKP(h0, bp)}, next_block \in {NEXT_BLKP(h0, bp)} })

handle_malloc(h0, bp, asize) ==
    The({ The({
        IF rem_size < DSIZE * 2
        THEN The({
                 WRITE(h2, FTRP(h2, bp), PACK(cf_size, 1))
             : h2 \in {WRITE(h1, HDRP(bp), PACK(cf_size, 1))} })
        ELSE The({ The({ The({ The({
                 add_free(h5, NEXT_BLKP(h3, bp))
             : h5 \in {WRITE(h4, FTRP(h4, NEXT_BLKP(h3, bp)), PACK(rem_size, 0))} })
             : h4 \in {WRITE(h3, HDRP(NEXT_BLKP(h3, bp)), PACK(rem_size, 0))} })
             : h3 \in {WRITE(h2, FTRP(h2, bp), PACK(asize, 1))} })
             : h2 \in {WRITE(h1, HDRP(bp), PACK(asize, 1))} })
    : h1 \in {fb_patching(h, bp)},
      cf_size \in {GET_SIZE(h, HDRP(bp))},
      rem_size \in {U(GET_SIZE(h, HDRP(bp)) - asize)} })
    : h \in {Rd(h0, {HDRP(bp)})} })

\* extend_heap with the new header written before mem_sbrk is asked
extend_heap_writes_first(h, words) ==
    LET size == IF words % 2 # 0 THEN U((words + 1) * WSIZE) ELSE U(words * WSIZE)
    IN  The({ The({
            IF h1.bp = -1 THEN [h1 EXCEPT !.bp = NULL]
            ELSE The({ The({
                     handle_free(h4, h1.bp)
                 : h4 \in {WRITE(h3, HDRP(NEXT_BLKP(h3, h1.bp)), PACK(0, 1))} })
                 : h3 \in {WRITE(h1, FTRP(h1, h1.bp), PACK(size, 0))} })
        : h1 \in {mem_sbrk(h0, size)} })
        : h0 \in {WRITE(h, HDRP(h.brk), PACK(size, 0))} })

extend_heap(h, words) ==
    LET size == IF words % 2 # 0 THEN U((words + 1) * WSIZE) ELSE U(words * WSIZE)
    IN  The({
            IF h1.bp = -1 THEN [h1 EXCEPT !.bp = NULL]
            ELSE The({ The({ The({
                     handle_free(h4, h1.bp)
                 : h4 \in {WRITE(h3, HDRP(NEXT_BLKP(h3, h1.bp)), PACK(0, 1))} })
                 : h3 \in {WRITE(h2, FTRP(h2, h1.bp), PACK(size, 0))} })
                 : h2 \in {WRITE(h1, HDRP(h1.bp), PACK(size, 0))} })
        : h1 \in {mem_sbrk(h, size)} })

\* The adjusted block size of mm_malloc, lines 115-121
adjusted_size(size) ==
    IF size <= DSIZE
    THEN 2 * DSIZE
    ELSE U((U(size + DSIZE + (DSIZE - 1)) \div DSIZE) * DSIZE)

\* mm_malloc growing the heap by the adjusted size alone
malloc_body_no_chunk(h, size) ==
    The({ The({
        IF f.hang THEN f
        ELSE IF f.bp # NULL
        THEN [handle_malloc(f, f.bp, asize) EXCEPT !.bp = f.bp]
        ELSE The({
                 IF e.bp = NULL THEN e
                 ELSE [handle_malloc(e, e.bp, asize) EXCEPT !.bp = e.bp]
             : e \in {extend_heap(f, asize \div WSIZE)} })
    : f \in {find_fit(h, asize)} })
    : asize \in {adjusted_size(size)} })

\* mm_malloc from line 123 on (size # 0): .bp is the pointer it returns
malloc_body(h, size) ==
    The({ The({
        IF f.hang THEN f
        ELSE IF f.bp # NULL
        THEN [handle_malloc(f, f.bp, asize) EXCEPT !.bp = f.bp]
        ELSE The({
                 IF e.bp = NULL THEN e
                 ELSE [handle_malloc(e, e.bp, asize) EXCEPT !.bp = e.bp]
             : e \in {extend_heap(f, MAX(asize, DEFAULT_CHUNKSIZE) \div WSIZE)} })
    : f \in {find_fit(h, asize)} })
    : asize \in {adjusted_size(size)} })

free_body(h0, bp) ==
    The({ The({ The({
        handle_free(h2, bp)
    : h2 \in {WRITE(h1, FTRP(h1, bp), PACK(GET_SIZE(h, HDRP(bp)), 0))} })
    : h1 \in {WRITE(h, HDRP(bp), PACK(GET_SIZE(h, HDRP(bp)), 0))} })
    : h \in {Rd(h0, {HDRP(bp)})} })

-----------------------------------------------------------------------------
(* The calls *)

NoCall ==
    [op |-> "none", ptr |-> NULL, arg |-> 0, ret |-> NULL, sbrks |-> <<>>,
     bsize |-> 0, case1 |-> FALSE]

\* Whether mem_sbrk may succeed now: the region it draws on is finite.
SbrkOutcomes == IF grown < MaxGrow THEN BOOLEAN ELSE {FALSE}

\* The blocks between the prologue and the epilogue, in address order, as
\* the headers chain them.
RECURSIVE Walk(_, _)
Walk(h, bp) ==
    IF bp >= h.brk \/ HDRP(bp) \notin DOMAIN h.mem \/ GET_SIZE(h, HDRP(bp)) = 0
    THEN <<>>
    ELSE The({ <<bp>> \o Walk(h, next_block) : next_block \in {NEXT_BLKP(h, bp)} })

FIRST_BLOCK == 4 * WSIZE

Blocks(h) == Walk(h, FIRST_BLOCK)

BlockSet(h) == The({ {bs[i] : i \in 1..Len(bs)} : bs \in {Blocks(h)} })

\* The words that mean something to the allocator: the initial region, the
\* tags of every block and the links of every free block.
Meaningful(h) ==
    The({
        {a \in DOMAIN h.mem : a < FIRST_BLOCK}
        \cup UNION {{HDRP(b), FTRP(h, b), HDRP(NEXT_BLKP(h, b))} : b \in bs}
        \cup UNION {{NEXTP(b), PREVP(b)} : b \in {c \in bs : GET_ALLOC(h, HDRP(c)) = 0}}
    : bs \in {BlockSet(h)} })

\* The memory a call leaves: the payload of the block returned belongs to the
\* caller, and every other word that is neither tag nor link is dead.
Handover(h, bp) ==
    The({
        [a \in ((DOMAIN h.mem) \cap Meaningful(h)) \ gone |-> h.mem[a]]
    : gone \in {IF bp = NULL THEN {}
                ELSE {a \in DOMAIN h.mem : bp <= a /\ a < FTRP(h, bp)}} })

\* The caller makes at most MaxCalls calls after mm_init.
Followed == calls < MaxCalls

\* A call without a defined result: the loop of find_fit does not end, a
\* write lands outside the heap, or an indeterminate word is read.
Stuck(h) == h.hang \/ h.fault \/ h.wild

\* How such a call may end.  An indeterminate next link may be the address of
\* the block it was read from, and the scan of find_fit then never ends.
Outcomes(h) ==
    IF h.hang THEN {"hung"}
    ELSE IF h.scan THEN {"hung", "wild"}
    ELSE IF h.fault THEN {"fault"}
    ELSE {"wild"}

Stop(h) ==
    /\ phase' \in Outcomes(h)
    /\ last' = NoCall
    /\ scen' = [st |-> 9, p1 |-> NULL, p2 |-> NULL]
    /\ calls' = calls + 1
    /\ UNCHANGED <<mem, brk, FREE_LIST_ROOT, live, grown>>

\* The reuse scenario, from the heap as mm_init leaves it:
\* malloc(16) = p1, malloc(16) = p2, free(p1), malloc(16)
ScenOff == [st |-> 9, p1 |-> NULL, p2 |-> NULL]

ScenMalloc(size, ret) ==
    IF size # 16 \/ ret = NULL THEN ScenOff
    ELSE IF scen.st = 0 THEN [scen EXCEPT !.st = 1, !.p1 = ret]
    ELSE IF scen.st = 1 THEN [scen EXCEPT !.st = 2, !.p2 = ret]
    ELSE IF scen.st = 3 THEN [scen EXCEPT !.st = 4]
    ELSE ScenOff

ScenFree(p) ==
    IF scen.st = 2 /\ p = scen.p1 THEN [scen EXCEPT !.st = 3] ELSE ScenOff

\* mm_init with prologue tags that give the prologue the minimum block size
mm_init_prologue_16 ==
    /\ phase = "new"
    /\ \E ok \in BOOLEAN :
       \E h0 \in {Heap(ok)} :
       \E h1 \in {mem_sbrk(h0, 4 * WSIZE)} :
       \E heap_listp \in {h1.bp} :
       \E h2 \in {WRITE(h1, heap_listp, 0)} :
       \E h3 \in {WRITE(h2, heap_listp + (1 * WSIZE), PACK(2 * DSIZE, 1))} :
       \E h4 \in {WRITE(h3, heap_listp + (2 * WSIZE), PACK(2 * DSIZE, 1))} :
       \E h5 \in {WRITE(h4, heap_listp + (3 * WSIZE), PACK(0, 1))} :
       \E r \in {IF heap_listp = -1 THEN h1 ELSE h5} :
            /\ mem' = r.mem
            /\ brk' = r.brk
            /\ FREE_LIST_ROOT' = r.root
            /\ phase' = (IF heap_listp = -1 THEN "new" ELSE "ready")
            /\ last' = [NoCall EXCEPT !.op = "init", !.sbrks = r.sbrks,
                                      !.ret = (IF heap_listp = -1 THEN -1 ELSE 0)]
            /\ UNCHANGED <<live, grown, scen, calls>>

mm_init ==
    /\ phase = "new"
    /\ \E ok \in BOOLEAN :
       \E h0 \in {Heap(ok)} :
       \E h1 \in {mem_sbrk(h0, 4 * WSIZE)} :
       \E heap_listp \in {h1.bp} :
       \E h2 \in {WRITE(h1, heap_listp, 0)} :
       \E h3 \in {WRITE(h2, heap_listp + (1 * WSIZE), PACK(DSIZE, 1))} :
       \E h4 \in {WRITE(h3, heap_listp + (2 * WSIZE), PACK(DSIZE, 1))} :
       \E h5 \in {WRITE(h4, heap_listp + (3 * WSIZE), PACK(0, 1))} :
       \E r \in {IF heap_listp = -1 THEN h1 ELSE h5} :
            /\ mem' = r.mem
            /\ brk' = r.brk
            /\ FREE_LIST_ROOT' = r.root
            /\ phase' = (IF heap_listp = -1 THEN "new" ELSE "ready")
            /\ last' = [NoCall EXCEPT !.op = "init", !.sbrks = r.sbrks,
                                      !.ret = (IF heap_listp = -1 THEN -1 ELSE 0)]
            /\ UNCHANGED <<live, grown, scen, calls>>

mm_malloc(size) ==
    /\ phase = "ready"
    /\ Followed
    /\ Cardinality(live) < MaxLive
    /\ \E ok \in SbrkOutcomes :
       \E h \in {Heap(ok)} :
       \E r \in {IF size = 0 THEN h ELSE malloc_body(h, size)} :
            IF Stuck(r) THEN Stop(r)
            ELSE
            /\ mem' = (IF r.bp = NULL THEN r.mem ELSE Handover(r, r.bp))
            /\ brk' = r.brk
            /\ FREE_LIST_ROOT' = r.root
            /\ phase' = phase
            /\ live' = (IF r.bp = NULL THEN live ELSE live \cup {r.bp})
            /\ grown' = (IF r.brk # brk THEN grown + 1 ELSE grown)
            /\ last' = [NoCall EXCEPT !.op = "malloc", !.arg = size, !.ret = r.bp,
                                      !.sbrks = r.sbrks]
            /\ scen' = ScenMalloc(size, r.bp)
            /\ calls' = calls + 1

mm_free(bp) ==
    /\ phase = "ready"
    /\ Followed
    /\ bp \in live
    /\ \E h \in {Heap(FALSE)} :
       \E r \in {free_body(h, bp)} :
            IF Stuck(r) THEN Stop(r)
            ELSE
            /\ mem' = Handover(r, NULL)
            /\ brk' = r.brk
            /\ FREE_LIST_ROOT' = r.root
            /\ phase' = phase
            /\ live' = live \ {bp}
            /\ grown' = grown
            /\ last' = [NoCall EXCEPT !.op = "free", !.ptr = bp,
                                      !.bsize = GET_SIZE(h, HDRP(bp)),
                                      !.case1 = (/\ GET_ALLOC(h, bp - DSIZE) = 1
                                                 /\ GET_ALLOC(h, HDRP(NEXT_BLKP(h, bp))) = 1)]
            /\ scen' = ScenFree(bp)
            /\ calls' = calls + 1

\* What the caller of a function without a return statement may receive
REALLOC_RETURNS == {NULL, FIRST_BLOCK}

\* The sizes mm_realloc is called with
REALLOC_SIZES == {0, 16}

\* mm_realloc has no statements: nothing changes and, there being no return
\* statement, the value the caller receives is indeterminate.
mm_realloc(ptr, size) ==
    /\ phase = "ready"
    /\ Followed
    /\ \E junk \in REALLOC_RETURNS :
        /\ last' = [NoCall EXCEPT !.op = "realloc", !.ptr = ptr, !.arg = size, !.ret = junk]
        /\ scen' = ScenOff
        /\ calls' = calls + 1
        /\ UNCHANGED <<mem, brk, FREE_LIST_ROOT, phase, live, grown>>

Init ==
    /\ mem = <<>>
    /\ brk = 0
    /\ FREE_LIST_ROOT = NULL
    /\ phase = "new"
    /\ live = {}
    /\ grown = 0
    /\ last = NoCall
    /\ scen = [st |-> 0, p1 |-> NULL, p2 |-> NULL]
    /\ calls = 0

Malloc == \E size \in SIZES : mm_malloc(size)
Free == \E bp \in live : mm_free(bp)
Realloc == \E ptr \in {NULL} \cup live, size \in REALLOC_SIZES : mm_realloc(ptr, size)

Next == mm_init \/ Malloc \/ Free \/ Realloc

Spec == Init /\ [][Next]_vars

-----------------------------------------------------------------------------
(* What the claims speak of *)

\* The heap as it stands, for reading
Cur == Heap(FALSE)

SizeOf(h, b) == GET_SIZE(h, HDRP(b))

IsFree(h, b) == GET_ALLOC(h, HDRP(b)) = 0

\* The free blocks an address-order walk finds
FreeBlocks(h) == {b \in BlockSet(h) : IsFree(h, b)}

\* The blocks reached from p by following next links
RECURSIVE ListFrom(_, _, _)
ListFrom(h, p, seen) ==
    IF p = NULL \/ p \in seen THEN seen
    ELSE ListFrom(h, READ(h, NEXTP(p)), seen \cup {p})

RECURSIVE Cyclic(_, _, _)
Cyclic(h, p, seen) ==
    IF p = NULL THEN FALSE
    ELSE IF p \in seen THEN TRUE
    ELSE Cyclic(h, READ(h, NEXTP(p)), seen \cup {p})

FreeList(h) == ListFrom(h, h.root, {})

\* A call of mm_malloc or of mm_free has completed
Completed == phase = "ready" /\ last.op \in {"malloc", "free"}

\* The payload ranges [p, p + blockSize(p) - 8) and [q, q + blockSize(q) - 8)
\* have no byte in common
Disjoint(h, p, q) ==
    \/ p + SizeOf(h, p) - DSIZE <= q
    \/ q + SizeOf(h, q) - DSIZE <= p
    \/ SizeOf(h, p) <= DSIZE
    \/ SizeOf(h, q) <= DSIZE

-----------------------------------------------------------------------------
\* C1: the payload ranges of any two live allocations never intersect, and
\* each live pointer heads a block of the heap whose allocation bit is 1.
C1_NoOverlap ==
    phase = "ready" =>
        /\ \A p \in live : p \in BlockSet(Cur) /\ ~ IsFree(Cur, p)
        /\ \A p, q \in live : p # q => Disjoint(Cur, p, q)

\* C2: after every completed mm_malloc and mm_free the blocks reachable from
\* FREE_LIST_ROOT are exactly the free blocks of the address-order walk, and
\* the list is acyclic.
C2_FreeListIsFreeBlocks ==
    Completed =>
        /\ FreeList(Cur) = FreeBlocks(Cur)
        /\ ~ Cyclic(Cur, FREE_LIST_ROOT, {})

C4_SizeAndAlignment ==
    (phase = "ready" /\ last.op = "malloc" /\ last.ret # NULL) =>
        /\ last.ret % 8 = 0
        /\ SizeOf(Cur, last.ret) - DSIZE >= last.arg

\* C5: after every completed mm_malloc or mm_free every block between the
\* prologue and the epilogue has a header equal to its footer and a size
\* that is a multiple of 8 and at least 16.
C5_TagsAndSizes ==
    Completed =>
        \A b \in BlockSet(Cur) :
            /\ READ(Cur, HDRP(b)) = READ(Cur, FTRP(Cur, b))
            /\ SizeOf(Cur, b) % 8 = 0
            /\ SizeOf(Cur, b) >= 2 * DSIZE

\* C6: a mm_malloc that returns failure leaves every word of the heap, the
\* heap end and FREE_LIST_ROOT (hence every link) as they were; and while no
\* growth has succeeded since mm_init, every mm_malloc returns failure.
C6_FailureChangesNothing ==
    [][(phase' = "ready" /\ last'.op = "malloc" /\ calls' = calls + 1) =>
          /\ last'.ret = NULL =>
                (mem' = mem /\ brk' = brk /\ FREE_LIST_ROOT' = FREE_LIST_ROOT)
          /\ grown' = 0 => last'.ret = NULL]_vars

\* mem_sbrk was asked for memory by a non-empty request and refused, with
\* free blocks in the heap.
C6_Witness ==
    /\ phase = "ready"
    /\ last.op = "malloc"
    /\ last.arg # 0
    /\ last.ret = NULL
    /\ Len(last.sbrks) = 1
    /\ FreeBlocks(Cur) # {}

\* C7: mm_malloc calls mem_sbrk only when no free block of the heap has a
\* size of at least the adjusted request size.
C7_GrowsOnlyWhenNoFreeBlockFits ==
    [][(phase' = "ready" /\ last'.op = "malloc" /\ calls' = calls + 1
          /\ last'.sbrks # <<>>) =>
          ~ \E b \in FreeBlocks(Cur) : SizeOf(Cur, b) >= adjusted_size(last'.arg)]_vars

\* C8: after mm_free(p) of a block whose two neighbours are allocated, the
\* next mm_malloc(n) (n > 0) with adjusted size at most the block's size
\* returns p; and on a fresh heap malloc(16) = p1, malloc(16) = p2 # p1,
\* free(p1), malloc(16) returns p1.
C8_ExactReuse ==
    [][/\ (/\ phase = "ready" /\ last.op = "free" /\ last.case1
           /\ phase' = "ready" /\ last'.op = "malloc" /\ calls' = calls + 1
           /\ last'.arg # 0
           /\ adjusted_size(last'.arg) <= last.bsize) => last'.ret = last.ptr
       /\ scen'.st \in {2, 3, 4} => scen'.p2 # scen'.p1
       /\ scen'.st = 4 => last'.ret = scen'.p1]_vars

\* The scenario has run to its end.
C8_Witness ==
    /\ phase = "ready"
    /\ scen.st = 4
    /\ last.op = "malloc"
    /\ last.ret = scen.p1

\* C9: mm_realloc(NULL, size) returns what mm_malloc(size) would return and
\* leaves the heap and the free list as mm_malloc(size) would.
C9_ReallocNullIsMalloc ==
    [][(last'.op = "realloc" /\ last'.ptr = NULL /\ calls' = calls + 1) =>
          \E ok \in SbrkOutcomes :
          \E h \in {Heap(ok)} :
          \E r \in {IF last'.arg = 0 THEN h ELSE malloc_body(h, last'.arg)} :
                  /\ last'.ret = r.bp
                  /\ mem' = (IF r.bp = NULL THEN r.mem ELSE Handover(r, r.bp))
                  /\ brk' = r.brk
                  /\ FREE_LIST_ROOT' = r.root]_vars

\* C10: when the free list holds no fitting block, mm_malloc calls mem_sbrk
\* exactly once, for max(asize, 4096) bytes, and a successful allocation is
\* then served from the new block, or from the free block it merged into;
\* when the free list holds a fitting block, mem_sbrk is not called.
C10_GrowsOnceByChunk ==
    [][(phase' = "ready" /\ last'.op = "malloc" /\ calls' = calls + 1
          /\ last'.arg # 0) =>
          LET asize == adjusted_size(last'.arg)
              lastb == IF Blocks(Cur) = <<>> THEN NULL
                       ELSE Blocks(Cur)[Len(Blocks(Cur))]
              newb == IF lastb # NULL /\ IsFree(Cur, lastb) THEN lastb ELSE brk
          IN  IF find_fit(Cur, asize).bp = NULL
              THEN /\ last'.sbrks = <<MAX(asize, DEFAULT_CHUNKSIZE)>>
                   /\ MAX(asize, DEFAULT_CHUNKSIZE) >= DEFAULT_CHUNKSIZE
                   /\ last'.ret \in {NULL, newb}
                   /\ last'.ret = NULL <=> brk' = brk
              ELSE last'.sbrks = <<>>]_vars

\* A request above the chunk size grew the heap behind a free block and was
\* served from the merged block.
C10_Witness ==
    /\ phase = "ready"
    /\ last.op = "malloc"
    /\ last.sbrks = <<adjusted_size(last.arg)>>
    /\ adjusted_size(last.arg) > DEFAULT_CHUNKSIZE
    /\ last.ret # NULL
    /\ last.ret < brk - adjusted_size(last.arg)

-----------------------------------------------------------------------------
\* The four words of the initial region, with prologue tags of size n
InitialRegion(n) ==
    (0 :> 0) @@ (WSIZE :> PACK(n, 1)) @@ (2 * WSIZE :> PACK(n, 1))
             @@ (3 * WSIZE :> PACK(0, 1))

\* C11 (as stated): after a successful mm_init the initial region holds a
\* padding word, a prologue header and footer both pack(16, allocated) and an
\* epilogue header pack(0, allocated); a failed mm_init writes nothing.
C11_InitialRegion16 ==
    [][(last'.op = "init") =>
          IF last'.ret = 0
          THEN mem' = InitialRegion(2 * DSIZE) /\ brk' = 4 * WSIZE
          ELSE mem' = mem /\ brk' = brk /\ FREE_LIST_ROOT' = FREE_LIST_ROOT]_vars

\* C11 (amended): as above with prologue header and footer both
\* pack(8, allocated), the prologue being a header and a footer and nothing
\* else; the free list is left empty.
C11_InitialRegion ==
    [][(last'.op = "init") =>
          IF last'.ret = 0
          THEN /\ mem' = InitialRegion(DSIZE)
               /\ brk' = 4 * WSIZE
               /\ FREE_LIST_ROOT' = NULL
               /\ last'.sbrks = <<4 * WSIZE>>
          ELSE mem' = mem /\ brk' = brk /\ FREE_LIST_ROOT' = FREE_LIST_ROOT]_vars

\* mm_init has succeeded and nothing else has run.
C11_Witness ==
    /\ phase = "ready"
    /\ last.op = "init"
    /\ last.ret = 0
    /\ DOMAIN mem = {0, WSIZE, 2 * WSIZE, 3 * WSIZE}

-----------------------------------------------------------------------------
\* The heap as the step leaves it, for reading
New == HeapOf([mem |-> mem', brk |-> brk', root |-> FREE_LIST_ROOT'], FALSE)

\* The block before b and the block after b in address order; NULL for the
\* prologue and for the epilogue
PrevOf(h, b) ==
    The({ IF bs[1] = b THEN NULL ELSE bs[(CHOOSE i \in 1..Len(bs) : bs[i] = b) - 1]
        : bs \in {Blocks(h)} })

NextOf(h, b) ==
    The({ IF bs[Len(bs)] = b THEN NULL ELSE bs[(CHOOSE i \in 1..Len(bs) : bs[i] = b) + 1]
        : bs \in {Blocks(h)} })

FreeAt(h, b) == b # NULL /\ IsFree(h, b)

\* The block coalescing is to leave for the block b of size n in the heap h:
\* its address and its size
MergedAt(h, b) == IF FreeAt(h, PrevOf(h, b)) THEN PrevOf(h, b) ELSE b

MergedSize(h, b, n) ==
    n + (IF FreeAt(h, PrevOf(h, b)) THEN SizeOf(h, PrevOf(h, b)) ELSE 0)
      + (IF FreeAt(h, NextOf(h, b)) THEN SizeOf(h, NextOf(h, b)) ELSE 0)

\* In the heap g the block at a is free, has size n in header and footer, is
\* the head of the free list, and has no free neighbour
MergedBlock(g, a, n) ==
    /\ g.root = a
    /\ {HDRP(a), a + n - DSIZE, PREVP(a)} \subseteq DOMAIN g.mem
    /\ READ(g, HDRP(a)) = PACK(n, 0)
    /\ READ(g, a + n - DSIZE) = PACK(n, 0)
    /\ READ(g, PREVP(a)) = NULL
    /\ READ(g, NEXTP(a)) # a
    /\ GET_ALLOC(g, a - DSIZE) = 1
    /\ GET_ALLOC(g, HDRP(a + n)) = 1

\* The last block of the heap h, NULL if there is none
LastBlock(h) == IF Blocks(h) = <<>> THEN NULL ELSE Blocks(h)[Len(Blocks(h))]

\* C12: handle_free, reached from mm_free and from extend_heap, leaves one
\* free block whose size is the sum of the freed block and of each free
\* neighbour, at the lowest address of the merged blocks, and it is the head
\* of the free list when handle_free returns; freeing two adjacent allocated
\* blocks of sizes a and b between allocated neighbours leaves one free block
\* of size a + b.
C12_Coalescing ==
    [][/\ (/\ phase' = "ready" /\ last'.op = "free" /\ calls' = calls + 1
           /\ last'.ptr \in BlockSet(Cur)) =>
              /\ MergedBlock(New, MergedAt(Cur, last'.ptr),
                             MergedSize(Cur, last'.ptr, last'.bsize))
              /\ (/\ last.op = "free" /\ last.case1
                  /\ {PrevOf(Cur, last'.ptr), NextOf(Cur, last'.ptr)}
                         \cap FreeBlocks(Cur) = {last.ptr}) =>
                     /\ FREE_LIST_ROOT' = MAX(0, IF last.ptr < last'.ptr
                                                 THEN last.ptr ELSE last'.ptr)
                     /\ SizeOf(New, FREE_LIST_ROOT') = last.bsize + last'.bsize
       /\ (/\ phase' = "ready" /\ last'.op = "malloc" /\ calls' = calls + 1
           /\ brk' # brk) =>
              \E r \in {extend_heap(Heap(TRUE), last'.sbrks[1] \div WSIZE)} :
              \E a \in {IF FreeAt(Cur, LastBlock(Cur)) THEN LastBlock(Cur) ELSE brk} :
              \E n \in {last'.sbrks[1] + (IF FreeAt(Cur, LastBlock(Cur))
                                          THEN SizeOf(Cur, LastBlock(Cur)) ELSE 0)} :
                  /\ r.bp = a
                  /\ MergedBlock(r, a, n)]_vars

\* A free has merged the block with a free block before it and a free block
\* after it.
C12_Witness ==
    /\ phase = "ready"
    /\ last.op = "free"
    /\ FREE_LIST_ROOT # NULL
    /\ FREE_LIST_ROOT < last.ptr
    /\ FREE_LIST_ROOT + SizeOf(Cur, FREE_LIST_ROOT) > last.ptr + last.bsize

-----------------------------------------------------------------------------
\* The heap and the candidate (.bp) that mm_malloc hands to handle_malloc for
\* the adjusted size asize: the fit found or, after growth, the new block
Candidate(asize) ==
    The({ IF f.bp # NULL THEN f
          ELSE extend_heap(Heap(TRUE), MAX(asize, DEFAULT_CHUNKSIZE) \div WSIZE)
        : f \in {find_fit(Cur, asize)} })

\* In the heap g the block at a has size n and allocation bit alloc in its
\* header and in its footer
Tagged(g, a, n, alloc) ==
    /\ {HDRP(a), a + n - DSIZE} \subseteq DOMAIN g.mem
    /\ READ(g, HDRP(a)) = PACK(n, alloc)
    /\ READ(g, a + n - DSIZE) = PACK(n, alloc)

\* C13: handle_malloc, for a candidate free block of size c and asize <= c:
\* if c - asize < 16 the whole block is allocated with size c and no free
\* block is created; otherwise an allocated block of size asize is left at the
\* candidate's address and a free block of size c - asize right after it,
\* which is the free-list head on return.  In both cases the candidate is no
\* longer reachable from FREE_LIST_ROOT.
C13_Placement ==
    [][(/\ phase' = "ready" /\ last'.op = "malloc" /\ calls' = calls + 1
        /\ last'.ret # NULL) =>
          \E asize \in {adjusted_size(last'.arg)} :
          \E hc \in {Candidate(asize)} :
          \E c \in {SizeOf(hc, hc.bp)} :
              (asize <= c) =>
                  /\ hc.bp = last'.ret
                  /\ IF c - asize < 2 * DSIZE
                     THEN /\ Tagged(New, hc.bp, c, 1)
                          /\ FreeBlocks(New) = FreeBlocks(hc) \ {hc.bp}
                     ELSE /\ Tagged(New, hc.bp, asize, 1)
                          /\ Tagged(New, hc.bp + asize, c - asize, 0)
                          /\ FREE_LIST_ROOT' = hc.bp + asize
                  /\ hc.bp \notin FreeList(New)]_vars

\* A free block on the list was split and its remainder is the list head.
C13_Witness ==
    /\ phase = "ready"
    /\ last.op = "malloc"
    /\ last.ret # NULL
    /\ last.sbrks = <<>>
    /\ SizeOf(Cur, last.ret) = adjusted_size(last.arg)
    /\ FREE_LIST_ROOT = last.ret + SizeOf(Cur, last.ret)
    /\ IsFree(Cur, FREE_LIST_ROOT)

-----------------------------------------------------------------------------
\* C14: add_free on a non-empty list with head h (as mm_free calls it for a
\* block between allocated neighbours) splices the block in front of h:
\* afterwards FREE_LIST_ROOT = block, block.prev = none, block.next = h,
\* h.prev = block, and every block reachable from the root before is still
\* reachable, so that the list is longer by exactly one.
C14_InsertHead ==
    [][(/\ phase' = "ready" /\ last'.op = "free" /\ calls' = calls + 1
        /\ last'.case1 /\ FREE_LIST_ROOT # NULL) =>
          /\ FREE_LIST_ROOT' = last'.ptr
          /\ READ(New, PREVP(last'.ptr)) = NULL
          /\ READ(New, NEXTP(last'.ptr)) = FREE_LIST_ROOT
          /\ READ(New, PREVP(FREE_LIST_ROOT)) = last'.ptr
          /\ FreeList(Cur) \subseteq FreeList(New)
          /\ Cardinality(FreeList(New)) = Cardinality(FreeList(Cur)) + 1]_vars

-----------------------------------------------------------------------------
\* Every member of the list of g is the prev of its next, and the head has
\* no prev
LinksConsistent(g) ==
    /\ g.root # NULL => READ(g, PREVP(g.root)) = NULL
    /\ \A m \in FreeList(g) :
           READ(g, NEXTP(m)) # NULL => READ(g, PREVP(READ(g, NEXTP(m)))) = m

\* fb_patching(b) in the heap h removes b from the list and nothing else
RemovesOnly(h, b) ==
    \E g \in {fb_patching(h, b)} :
        /\ FreeList(g) = FreeList(h) \ {b}
        /\ LinksConsistent(g)
        /\ IF h.root = b THEN g.root = READ(h, NEXTP(b)) ELSE g.root = h.root

\* C15: every fb_patching performed during mm_malloc or mm_free removes
\* exactly the block it is given: the blocks reachable from FREE_LIST_ROOT
\* afterwards are those before minus that block, the remaining members keep
\* consistent links, and the root changes only when the block removed was the
\* root, to that block's next.
C15_RemoveExactly ==
    [][/\ (/\ phase' = "ready" /\ last'.op = "malloc" /\ calls' = calls + 1
           /\ last'.ret # NULL) =>
              /\ \E hc \in {Candidate(adjusted_size(last'.arg))} :
                     RemovesOnly(hc, hc.bp)
              /\ (brk' # brk /\ FreeAt(Cur, LastBlock(Cur))) =>
                     RemovesOnly(Cur, LastBlock(Cur))
       /\ (/\ phase' = "ready" /\ last'.op = "free" /\ calls' = calls + 1
           /\ last'.ptr \in BlockSet(Cur)) =>
              \E b \in {PrevOf(Cur, last'.ptr)}, n \in {NextOf(Cur, last'.ptr)} :
                  /\ FreeAt(Cur, b) => RemovesOnly(Cur, b)
                  /\ (~ FreeAt(Cur, b) /\ FreeAt(Cur, n)) => RemovesOnly(Cur, n)
                  /\ (FreeAt(Cur, b) /\ FreeAt(Cur, n)) =>
                         \E g \in {fb_patching(Cur, b)} : RemovesOnly(g, n)]_vars

-----------------------------------------------------------------------------
\* The smallest multiple of 8 that is at least n, in unbounded arithmetic
RoundUp8(n) == ((n + 7) \div 8) * 8

\* C16: the block size asize that mm_malloc computes for a request is 16 for
\* every size in 1..8 and, for every size > 8, the smallest multiple of 8
\* that is at least size + 8.
C16_Normalisation ==
    (last.op = "malloc" /\ last.arg # 0) =>
        adjusted_size(last.arg) =
            (IF last.arg <= 8 THEN 16 ELSE RoundUp8(last.arg + 8))

\* C17: for every request size in 1..2^w - 1 the block size computed modulo
\* 2^w is at least 16 and leaves at least size bytes after the 8 bytes of
\* header and footer, so that no successful mm_malloc returns a block smaller
\* than 16 bytes or with less payload than the request.
C17_NoWrap ==
    (last.op = "malloc" /\ last.arg \in 1..(SIZE_MOD - 1)) =>
        /\ adjusted_size(last.arg) >= 2 * DSIZE
        /\ adjusted_size(last.arg) - DSIZE >= last.arg
        /\ (phase = "ready" /\ last.ret # NULL) =>
               /\ last.ret \in BlockSet(Cur)
               /\ SizeOf(Cur, last.ret) >= 2 * DSIZE
               /\ SizeOf(Cur, last.ret) - DSIZE >= last.arg

-----------------------------------------------------------------------------
\* C18: every call of mm_malloc and of mm_free terminates: the scan of
\* find_fit reaches a fitting block or the end of the list, and the list
\* reachable from FREE_LIST_ROOT never contains a cycle.
C18_Terminates ==
    /\ phase # "hung"
    /\ phase = "ready" => ~ Cyclic(Cur, FREE_LIST_ROOT, {})

-----------------------------------------------------------------------------
\* C19: after any sequence of mm_malloc and mm_free calls every block
\* reachable from FREE_LIST_ROOT heads a block of the heap whose header and
\* footer have allocation bit 0, and none is a block the caller holds.
C19_ListHoldsFreeBlocks ==
    phase = "ready" =>
        \A b \in FreeList(Cur) :
            /\ b \in BlockSet(Cur)
            /\ {HDRP(b), FTRP(Cur, b)} \subseteq DOMAIN mem
            /\ GET_ALLOC(Cur, HDRP(b)) = 0
            /\ GET_ALLOC(Cur, FTRP(Cur, b)) = 0
            /\ b \notin live

-----------------------------------------------------------------------------
\* The sum of the sizes of the blocks bs of the heap h
RECURSIVE SumSizes(_, _)
SumSizes(h, bs) ==
    IF bs = <<>> THEN 0 ELSE SizeOf(h, Head(bs)) + SumSizes(h, Tail(bs))

\* Where the address-order walk of the heap h ends
WalkEnd(h) ==
    IF Blocks(h) = <<>> THEN FIRST_BLOCK
    ELSE LastBlock(h) + SizeOf(h, LastBlock(h))

\* C20: after every completed call the blocks tile the heap: stepping from
\* the first block by the header sizes reaches the epilogue header (size 0,
\* allocated) in the last word of the heap, the prologue tags are as mm_init
\* wrote them, and the block sizes add up to the bytes extend_heap obtained
\* from mem_sbrk.
C20_Tiling ==
    phase = "ready" =>
        /\ {WSIZE, 2 * WSIZE, brk - WSIZE} \subseteq DOMAIN mem
        /\ mem[WSIZE] = PACK(DSIZE, 1)
        /\ mem[2 * WSIZE] = PACK(DSIZE, 1)
        /\ WalkEnd(Cur) = brk
        /\ mem[brk - WSIZE] = PACK(0, 1)
        /\ SumSizes(Cur, Blocks(Cur)) = brk - 4 * WSIZE

\* The heap has been grown twice and holds allocated and free blocks.
C20_Witness ==
    /\ phase = "ready"
    /\ grown = 2
    /\ Len(Blocks(Cur)) >= 3
    /\ FreeBlocks(Cur) # {}
    /\ live # {}

=============================================================================
